---- MODULE Spec2Model ----
(***************************************************************************)
(* ReconnectableWebsocket (src/src/reconnectable_ws.rs): a facade over one *)
(* websocket connection, a registry of (subscription, callback) pairs, an  *)
(* unbounded trigger channel and a spawned task that, on every trigger,    *)
(* rebuilds the connection and replays the registry.                       *)
(*                                                                         *)
(* The exchange connection (E::new, OpenLimitsWs::subscribe, create_stream,*)
(* create_stream_specific, disconnect and the delivery of messages to the  *)
(* callbacks) is external: its outcomes are nondeterministic choices.      *)
(***************************************************************************)
EXTENDS Integers, Sequences, FiniteSets, TLC

\* ---------------------------------------------------------------- bounds
NumCallers == 1      \* concurrent users of the facade
MaxSubs == 2         \* subscribe calls made in one run
MaxStreams == 1      \* create_stream / create_stream_specific calls in one run
MaxTriggers == 2     \* fatal socket errors delivered in one run
MaxFails == 1        \* failed E::new / failed replay subscribes in one run

Callers == 1..NumCallers
LoopId == NumCallers + 1                 \* lock owner id of the spawned task; 0 is "unlocked"
Subscriptions == {"A", "B"}              \* values of Subscription
Messages == {"ok", "apperr", "fatal"}    \* Ok(_), Err(other), Err(SocketError())
None == [none |-> TRUE]

VARIABLES
    phase,       \* "new" | "failed" (instantiate returned Err) | "alive" | "dropped"
    attempts,    \* E::new calls made so far (instantiate and the task)
    conns,       \* connections constructed so far; a connection's id is its rank
    held,        \* id of the connection in self.websocket
    connCalls,   \* subscribe calls the held connection received: [sub, cb, by, ok]
    connStreams, \* streams the held connection created: Seq of [kind, conn]
    connDisc,    \* the held connection: "no" | "disc" (disconnect() was called on it) |
                 \* "fatal" (and a callback has seen the fatal error since)
    registry,    \* self.subscriptions: Seq of [sub, cb]
    queue,       \* triggers waiting in the channel
    sent,        \* triggers sent so far
    wsLock,      \* owner of the websocket Mutex (0 = unlocked)
    regLock,     \* owner of the subscriptions Mutex (0 = unlocked)
    loopPc,      \* position of the spawned task
    loopStrong,  \* the task holds the upgraded Arcs (lines 41-74)
    newConn,     \* id of new_websocket between E::new and its installation
    snapshot,    \* the task's clone of the registry (line 51)
    results,     \* results of the replay subscribes issued so far (TRUE = Ok)
    pc,          \* position of each caller
    arg,         \* index in callLog of the subscribe call a caller is in
    callLog,     \* every subscribe call, in the order the calls began: [sub, cb, res];
                 \* cb, the closure the call passes, is named by the call's rank
    raced,       \* a subscribe call began while another had not yet pushed
    last,        \* the delivery the last step made to a closure: the callback it wraps
                 \* (cb), who installed it (via), the message (in), the calls the
                 \* closure made (calls), whether it sent a trigger (send) and who
                 \* invoked it (by); None when the last step delivered nothing
    fails,       \* failures injected so far (E::new in the task, replay subscribes)
    episodes,    \* triggers consumed so far
    ep,          \* the running episode's count of E::new that returned Ok (ok) and Err
                 \* (fail), of sleeps, and of replays that failed (rfail)
    csCalls,     \* create_stream / create_stream_specific calls made so far
    csOk,        \* ... of which returned Ok
    stale        \* [held, new]: a fatal error has been delivered since the held
                 \* connection, since the pending new_websocket, was constructed

vars == <<phase, attempts, conns, held, connCalls, connStreams, connDisc, registry,
          queue, sent, wsLock, regLock, loopPc, loopStrong, newConn, snapshot,
          results, pc, arg, callLog, raced, last, fails, episodes, ep, csCalls,
          csOk, stale>>

connVars == <<conns, held, connCalls, connStreams, connDisc>>
loopVars == <<loopPc, loopStrong, newConn, snapshot, results, episodes, ep>>
callerVars == <<pc, arg, callLog, raced>>
chanVars == <<queue, sent>>

NoEpisode == [ok |-> 0, fail |-> 0, sleeps |-> 0, rfail |-> 0]

Init ==
    /\ phase = "new"
    /\ attempts = 0
    /\ conns = 0
    /\ held = 0
    /\ connCalls = <<>>
    /\ connStreams = <<>>
    /\ connDisc = "no"
    /\ registry = <<>>
    /\ queue = 0
    /\ sent = 0
    /\ wsLock = 0
    /\ regLock = 0
    /\ loopPc = "none"
    /\ loopStrong = FALSE
    /\ newConn = 0
    /\ snapshot = <<>>
    /\ results = <<>>
    /\ pc = [c \in Callers |-> "idle"]
    /\ arg = [c \in Callers |-> 0]
    /\ callLog = <<>>
    /\ raced = FALSE
    /\ last = None
    /\ fails = 0
    /\ episodes = 0
    /\ ep = NoEpisode
    /\ csCalls = 0
    /\ csOk = 0
    /\ stale = [held |-> FALSE, new |-> FALSE]

\* ------------------------------------------------------------- helpers
AllOk(rs) == \A i \in 1..Len(rs) : rs[i]

\* the websocket Arc is alive while the facade or the task's upgraded Arc owns it
ConnExists == phase = "alive" \/ loopStrong

Returned(log) == Cardinality({i \in 1..Len(log) : log[i].res # "pending"})

\* a closure that takes every error for the fatal one
SubscribeCallbackAnyErr(cb, m) ==
    [send |-> (m # "ok"), calls |-> <<[cb |-> cb, msg |-> m]>>]

\* a closure that keeps the fatal error to itself
ReplayCallbackSwallowsFatal(cb, m) ==
    [send |-> (m = "fatal"),
     calls |-> IF m = "fatal" THEN <<>> ELSE <<[cb |-> cb, msg |-> m]>>]

\* The closure subscribe hands to the connection (lines 112-117): what it does
\* with one message: whether it sends a trigger, and the calls it makes.
SubscribeCallback(cb, m) ==
    [send |-> (m = "fatal"), calls |-> <<[cb |-> cb, msg |-> m]>>]

\* The closure the replay hands to the connection (lines 56-63).
ReplayCallback(cb, m) ==
    [send |-> (m = "fatal"), calls |-> <<[cb |-> cb, msg |-> m]>>]

WrappedCallback(by, cb, m) ==
    IF by = "replay" THEN ReplayCallback(cb, m) ELSE SubscribeCallback(cb, m)

\* senders of the channel: the facade's tx, the task's clone (line 37) and the
\* clones inside the closures installed on the live connection
SenderCount ==
    (IF phase = "alive" THEN 1 ELSE 0)
    + (IF loopPc \notin {"none", "done"} THEN 1 ELSE 0)
    + (IF ConnExists
       THEN Cardinality({i \in 1..Len(connCalls) : connCalls[i].ok})
       ELSE 0)

\* a push that keeps one registration for each subscription
RegistryPushDedup(reg, entry) ==
    IF \E k \in 1..Len(reg) : reg[k].sub = entry.sub THEN reg ELSE Append(reg, entry)

\* a push that puts the new registration first
RegistryPushFront(reg, entry) == <<entry>> \o reg

\* line 108: Vec::push
RegistryPush(reg, entry) == Append(reg, entry)

\* a snapshot that leaves out the last registration
RegistryCloneShort(reg) == IF reg = <<>> THEN reg ELSE SubSeq(reg, 1, Len(reg) - 1)

\* line 51: Vec::clone
RegistryClone(reg) == reg

\* ---------------------------------------------------------- instantiate
\* an instantiate that tries E::new again when it fails
InstantiateRetry(ok) ==
    /\ phase = "new"
    /\ attempts' = attempts + 1
    /\ last' = None
    /\ IF ok
       THEN /\ phase' = "alive"
            /\ conns' = conns + 1
            /\ held' = conns + 1
            /\ registry' = <<>>
            /\ queue' = 0
            /\ loopPc' = "recv"
       ELSE /\ attempts < MaxFails
            /\ UNCHANGED <<phase, conns, held, registry, queue, loopPc>>
    /\ UNCHANGED <<connCalls, connStreams, connDisc, sent, wsLock, regLock,
                   loopStrong, newConn, snapshot, results, callerVars, fails,
                   episodes, ep, csCalls, csOk, stale>>

\* lines 27-84
Instantiate(ok) ==
    /\ phase = "new"
    /\ attempts' = attempts + 1
    /\ last' = None
    /\ IF ok
       THEN /\ phase' = "alive"
            /\ conns' = conns + 1
            /\ held' = conns + 1
            /\ registry' = <<>>
            /\ queue' = 0
            /\ loopPc' = "recv"
       ELSE /\ phase' = "failed"
            /\ UNCHANGED <<conns, held, registry, queue, loopPc>>
    /\ UNCHANGED <<connCalls, connStreams, connDisc, sent, wsLock, regLock,
                   loopStrong, newConn, snapshot, results, callerVars, fails,
                   episodes, ep, csCalls, csOk, stale>>

\* dropping the facade: the last strong handle goes away (no call is borrowing it)
DropFacade ==
    /\ phase = "alive"
    /\ \A c \in Callers : pc[c] = "idle"
    /\ phase' = "dropped"
    /\ last' = None
    /\ UNCHANGED <<attempts, connVars, registry, chanVars, wsLock, regLock, loopVars,
                   callerVars, fails, csCalls, csOk, stale>>

\* ------------------------------------------- the connection delivers a message
Deliver(i, m) ==
    /\ ConnExists
    /\ i \in 1..Len(connCalls)
    /\ connCalls[i].ok
    /\ m = "fatal" => sent < MaxTriggers
    /\ LET w == WrappedCallback(connCalls[i].by, connCalls[i].cb, m)
       IN  /\ last' = [cb |-> connCalls[i].cb, via |-> connCalls[i].by, in |-> m,
                       calls |-> w.calls, send |-> w.send, by |-> "conn"]
           /\ sent' = IF w.send THEN sent + 1 ELSE sent
           /\ queue' = IF w.send /\ loopPc # "done" THEN queue + 1 ELSE queue
    /\ stale' = IF m = "fatal" THEN [held |-> TRUE, new |-> (newConn # 0)] ELSE stale
    /\ connDisc' = IF m = "fatal" /\ connDisc = "disc" THEN "fatal" ELSE connDisc
    /\ UNCHANGED <<phase, attempts, conns, held, connCalls, connStreams, registry,
                   wsLock, regLock, loopVars, callerVars, fails, csCalls, csOk>>

\* ------------------------------------------------------------ subscribe
SubscribeBegin(c, s) ==
    /\ phase = "alive"
    /\ pc[c] = "idle"
    /\ Len(callLog) < MaxSubs
    /\ callLog' = Append(callLog, [sub |-> s, cb |-> Len(callLog) + 1, res |-> "pending"])
    /\ arg' = [arg EXCEPT ![c] = Len(callLog) + 1]
    /\ pc' = [pc EXCEPT ![c] = "sub_reglock"]
    /\ raced' = (raced \/ \E d \in Callers \ {c} : pc[d] \in {"sub_reglock", "sub_push"})
    /\ last' = None
    /\ UNCHANGED <<phase, attempts, connVars, registry, chanVars, wsLock, regLock,
                   loopVars, fails, csCalls, csOk, stale>>

SubscribeRegLock(c) ==
    /\ pc[c] = "sub_reglock"
    /\ regLock = 0
    /\ regLock' = c
    /\ pc' = [pc EXCEPT ![c] = "sub_push"]
    /\ last' = None
    /\ UNCHANGED <<phase, attempts, connVars, registry, chanVars, wsLock, loopVars,
                   arg, callLog, raced, fails, csCalls, csOk, stale>>

\* a push whose registry guard lives on to the end of subscribe
SubscribePushKeepsLock(c) ==
    /\ pc[c] = "sub_push"
    /\ registry' = RegistryPush(registry, [sub |-> callLog[arg[c]].sub,
                                            cb |-> callLog[arg[c]].cb])
    /\ regLock' = regLock
    /\ pc' = [pc EXCEPT ![c] = "sub_wslock"]
    /\ last' = None
    /\ UNCHANGED <<phase, attempts, connVars, chanVars, wsLock, loopVars,
                   arg, callLog, raced, fails, csCalls, csOk, stale>>

\* line 108: push, and the guard is dropped at the end of the statement
SubscribePush(c) ==
    /\ pc[c] = "sub_push"
    /\ registry' = RegistryPush(registry, [sub |-> callLog[arg[c]].sub,
                                            cb |-> callLog[arg[c]].cb])
    /\ regLock' = 0
    /\ pc' = [pc EXCEPT ![c] = "sub_wslock"]
    /\ last' = None
    /\ UNCHANGED <<phase, attempts, connVars, chanVars, wsLock, loopVars,
                   arg, callLog, raced, fails, csCalls, csOk, stale>>

\* a subscribe that does not wait for the websocket lock
SubscribeWsLockNoWait(c) ==
    /\ pc[c] = "sub_wslock"
    /\ wsLock' = c
    /\ pc' = [pc EXCEPT ![c] = "sub_call"]
    /\ last' = None
    /\ UNCHANGED <<phase, attempts, connVars, registry, chanVars, regLock, loopVars,
                   arg, callLog, raced, fails, csCalls, csOk, stale>>

\* lines 109-111: self.websocket.lock().await
SubscribeWsLock(c) ==
    /\ pc[c] = "sub_wslock"
    /\ wsLock = 0
    /\ wsLock' = c
    /\ pc' = [pc EXCEPT ![c] = "sub_call"]
    /\ last' = None
    /\ UNCHANGED <<phase, attempts, connVars, registry, chanVars, regLock, loopVars,
                   arg, callLog, raced, fails, csCalls, csOk, stale>>

\* a subscribe that takes its registration back when the connection refuses it
SubscribeCallUndo(c, ok) ==
    /\ pc[c] = "sub_call"
    /\ connCalls' = Append(connCalls, [sub |-> callLog[arg[c]].sub,
                                       cb |-> callLog[arg[c]].cb,
                                       by |-> "subscribe", ok |-> ok])
    /\ callLog' = [callLog EXCEPT ![arg[c]].res = IF ok THEN "ok" ELSE "err"]
    /\ registry' = IF ok THEN registry
                   ELSE SelectSeq(registry, LAMBDA e : e.cb # callLog[arg[c]].cb)
    /\ wsLock' = 0
    /\ pc' = [pc EXCEPT ![c] = "idle"]
    /\ arg' = [arg EXCEPT ![c] = 0]
    /\ last' = None
    /\ UNCHANGED <<phase, attempts, conns, held, connStreams, connDisc,
                   chanVars, regLock, loopVars, raced, fails, csCalls, csOk, stale>>

\* lines 112-118: the delegated subscribe and its result, returned as it is
SubscribeCall(c, ok) ==
    /\ pc[c] = "sub_call"
    /\ connCalls' = Append(connCalls, [sub |-> callLog[arg[c]].sub,
                                       cb |-> callLog[arg[c]].cb,
                                       by |-> "subscribe", ok |-> ok])
    /\ callLog' = [callLog EXCEPT ![arg[c]].res = IF ok THEN "ok" ELSE "err"]
    /\ wsLock' = 0
    /\ pc' = [pc EXCEPT ![c] = "idle"]
    /\ arg' = [arg EXCEPT ![c] = 0]
    /\ last' = None
    /\ UNCHANGED <<phase, attempts, conns, held, connStreams, connDisc, registry,
                   chanVars, regLock, loopVars, raced, fails, csCalls, csOk, stale>>

\* ------------------------------------- create_stream, create_stream_specific
CreateStreamBegin(c) ==
    /\ phase = "alive"
    /\ pc[c] = "idle"
    /\ csCalls < MaxStreams
    /\ csCalls' = csCalls + 1
    /\ pc' = [pc EXCEPT ![c] = "cs_wslock"]
    /\ last' = None
    /\ UNCHANGED <<phase, attempts, connVars, registry, chanVars, wsLock, regLock,
                   loopVars, arg, callLog, raced, fails, csOk, stale>>

CreateStreamWsLock(c) ==
    /\ pc[c] = "cs_wslock"
    /\ wsLock = 0
    /\ wsLock' = c
    /\ pc' = [pc EXCEPT ![c] = "cs_call"]
    /\ last' = None
    /\ UNCHANGED <<phase, attempts, connVars, registry, chanVars, regLock, loopVars,
                   arg, callLog, raced, fails, csCalls, csOk, stale>>

CreateStream(c, ok) ==
    /\ pc[c] = "cs_call"
    /\ connStreams' = IF ok
                      THEN Append(connStreams, [kind |-> "stream", conn |-> held])
                      ELSE connStreams
    /\ csOk' = IF ok THEN csOk + 1 ELSE csOk
    /\ wsLock' = 0
    /\ pc' = [pc EXCEPT ![c] = "idle"]
    /\ last' = None
    /\ UNCHANGED <<phase, attempts, conns, held, connCalls, connDisc, registry,
                   chanVars, regLock, loopVars, arg, callLog, raced, fails, csCalls, stale>>

CreateStreamSpecificBegin(c) ==
    /\ phase = "alive"
    /\ pc[c] = "idle"
    /\ csCalls < MaxStreams
    /\ csCalls' = csCalls + 1
    /\ pc' = [pc EXCEPT ![c] = "css_wslock"]
    /\ last' = None
    /\ UNCHANGED <<phase, attempts, connVars, registry, chanVars, wsLock, regLock,
                   loopVars, arg, callLog, raced, fails, csOk, stale>>

CreateStreamSpecificWsLock(c) ==
    /\ pc[c] = "css_wslock"
    /\ wsLock = 0
    /\ wsLock' = c
    /\ pc' = [pc EXCEPT ![c] = "css_call"]
    /\ last' = None
    /\ UNCHANGED <<phase, attempts, connVars, registry, chanVars, regLock, loopVars,
                   arg, callLog, raced, fails, csCalls, csOk, stale>>

CreateStreamSpecific(c, ok) ==
    /\ pc[c] = "css_call"
    /\ connStreams' = IF ok
                      THEN Append(connStreams, [kind |-> "specific", conn |-> held])
                      ELSE connStreams
    /\ csOk' = IF ok THEN csOk + 1 ELSE csOk
    /\ wsLock' = 0
    /\ pc' = [pc EXCEPT ![c] = "idle"]
    /\ last' = None
    /\ UNCHANGED <<phase, attempts, conns, held, connCalls, connDisc, registry,
                   chanVars, regLock, loopVars, arg, callLog, raced, fails, csCalls, stale>>

\* ----------------------------------------------------------- disconnect
DisconnectBegin(c) ==
    /\ phase = "alive"
    /\ pc[c] = "idle"
    /\ pc' = [pc EXCEPT ![c] = "dc_wslock"]
    /\ last' = None
    /\ UNCHANGED <<phase, attempts, connVars, registry, chanVars, wsLock, regLock,
                   loopVars, arg, callLog, raced, fails, csCalls, csOk, stale>>

DisconnectWsLock(c) ==
    /\ pc[c] = "dc_wslock"
    /\ wsLock = 0
    /\ wsLock' = c
    /\ pc' = [pc EXCEPT ![c] = "dc_call"]
    /\ last' = None
    /\ UNCHANGED <<phase, attempts, connVars, registry, chanVars, regLock, loopVars,
                   arg, callLog, raced, fails, csCalls, csOk, stale>>

\* a disconnect() that also wakes the task
DisconnectAndTrigger(c) ==
    /\ pc[c] = "dc_call"
    /\ connDisc' = "disc"
    /\ wsLock' = 0
    /\ pc' = [pc EXCEPT ![c] = "idle"]
    /\ last' = None
    /\ sent < MaxTriggers
    /\ sent' = sent + 1
    /\ queue' = queue + 1
    /\ UNCHANGED <<phase, attempts, conns, held, connCalls, connStreams, registry,
                   regLock, loopVars, arg, callLog, raced, fails, csCalls, csOk, stale>>

\* a disconnect() that takes the connection out of the holder
DisconnectTakes(c) ==
    /\ pc[c] = "dc_call"
    /\ connDisc' = "disc"
    /\ held' = 0
    /\ wsLock' = 0
    /\ pc' = [pc EXCEPT ![c] = "idle"]
    /\ last' = None
    /\ UNCHANGED <<phase, attempts, conns, connCalls, connStreams, registry,
                   chanVars, regLock, loopVars, arg, callLog, raced, fails, csCalls, csOk, stale>>

\* lines 132-134
Disconnect(c) ==
    /\ pc[c] = "dc_call"
    /\ connDisc' = "disc"
    /\ wsLock' = 0
    /\ pc' = [pc EXCEPT ![c] = "idle"]
    /\ last' = None
    /\ UNCHANGED <<phase, attempts, conns, held, connCalls, connStreams, registry,
                   chanVars, regLock, loopVars, arg, callLog, raced, fails, csCalls, csOk, stale>>

\* ------------------------------------------------- the spawned task (38-77)
\* a recv that takes every queued trigger at once
LoopRecvDrain ==
    /\ loopPc = "recv"
    /\ queue > 0 \/ SenderCount = 0
    /\ IF queue > 0
       THEN /\ queue' = 0
            /\ episodes' = episodes + 1
            /\ ep' = NoEpisode
            /\ loopPc' = "upgrade"
       ELSE /\ loopPc' = "done"
            /\ UNCHANGED <<queue, episodes, ep>>
    /\ last' = None
    /\ UNCHANGED <<phase, attempts, connVars, registry, sent, wsLock, regLock,
                   loopStrong, newConn, snapshot, results, callerVars, fails, csCalls, csOk, stale>>

\* rx.recv().await (line 39): Some(()) while a trigger is queued; None once the
\* queue is empty and no sender is left
LoopRecv ==
    /\ loopPc = "recv"
    /\ queue > 0 \/ SenderCount = 0
    /\ IF queue > 0
       THEN /\ queue' = queue - 1
            /\ episodes' = episodes + 1
            /\ ep' = NoEpisode
            /\ loopPc' = "upgrade"
       ELSE /\ loopPc' = "done"
            /\ UNCHANGED <<queue, episodes, ep>>
    /\ last' = None
    /\ UNCHANGED <<phase, attempts, connVars, registry, sent, wsLock, regLock,
                   loopStrong, newConn, snapshot, results, callerVars, fails, csCalls, csOk, stale>>

\* lines 41-42, both Weak upgrade
LoopUpgrade ==
    /\ loopPc = "upgrade"
    /\ phase = "alive"
    /\ loopStrong' = TRUE
    /\ loopPc' = "construct"
    /\ last' = None
    /\ UNCHANGED <<phase, attempts, connVars, registry, chanVars, wsLock, regLock,
                   newConn, snapshot, results, episodes, ep, callerVars, fails,
                   csCalls, csOk, stale>>

\* lines 40-42 and 75: an upgrade fails, the if-let body is skipped and the
\* 'reconnection loop goes round again
LoopSpin ==
    /\ loopPc = "upgrade"
    /\ phase # "alive"
    /\ last' = None
    /\ UNCHANGED <<phase, attempts, connVars, registry, chanVars, wsLock, regLock,
                   loopVars, callerVars, fails, csCalls, csOk, stale>>

\* an E::new whose failure goes straight back to the top of the loop
LoopConstructNoSleep(ok) ==
    /\ loopPc = "construct"
    /\ ~ok => fails < MaxFails
    /\ attempts' = attempts + 1
    /\ IF ok
       THEN /\ conns' = conns + 1
            /\ newConn' = conns + 1
            /\ ep' = [ep EXCEPT !.ok = @ + 1]
            /\ loopPc' = "wslock"
            /\ fails' = fails
            /\ loopStrong' = loopStrong
       ELSE /\ fails' = fails + 1
            /\ ep' = [ep EXCEPT !.fail = @ + 1]
            /\ loopPc' = "upgrade"
            /\ loopStrong' = FALSE
            /\ UNCHANGED <<conns, newConn>>
    /\ stale' = IF ok THEN [stale EXCEPT !.new = FALSE] ELSE stale
    /\ last' = None
    /\ UNCHANGED <<phase, held, connCalls, connStreams, connDisc, registry, chanVars,
                   wsLock, regLock, snapshot, results, episodes,
                   callerVars, csCalls, csOk>>

\* line 44: E::new(params.clone()).await
LoopConstruct(ok) ==
    /\ loopPc = "construct"
    /\ ~ok => fails < MaxFails
    /\ attempts' = attempts + 1
    /\ IF ok
       THEN /\ conns' = conns + 1
            /\ newConn' = conns + 1
            /\ ep' = [ep EXCEPT !.ok = @ + 1]
            /\ loopPc' = "wslock"
            /\ fails' = fails
       ELSE /\ fails' = fails + 1
            /\ ep' = [ep EXCEPT !.fail = @ + 1]
            /\ loopPc' = "sleep"
            /\ UNCHANGED <<conns, newConn>>
    /\ stale' = IF ok THEN [stale EXCEPT !.new = FALSE] ELSE stale
    /\ last' = None
    /\ UNCHANGED <<phase, held, connCalls, connStreams, connDisc, registry, chanVars,
                   wsLock, regLock, loopStrong, snapshot, results, episodes,
                   callerVars, csCalls, csOk>>

\* an installation after which the streams of the old connection exist again
LoopInstallWithStreams ==
    /\ loopPc = "wslock"
    /\ wsLock = 0
    /\ wsLock' = LoopId
    /\ held' = newConn
    /\ newConn' = 0
    /\ connCalls' = <<>>
    /\ connStreams' = connStreams
    /\ connDisc' = "no"
    /\ stale' = [held |-> stale.new, new |-> FALSE]
    /\ loopPc' = "reglock"
    /\ last' = None
    /\ UNCHANGED <<phase, attempts, conns, registry, chanVars, regLock, loopStrong,
                   snapshot, results, episodes, ep, callerVars, fails, csCalls, csOk>>

\* lines 48-49: take the websocket lock and overwrite the held connection
LoopInstall ==
    /\ loopPc = "wslock"
    /\ wsLock = 0
    /\ wsLock' = LoopId
    /\ held' = newConn
    /\ newConn' = 0
    /\ connCalls' = <<>>
    /\ connStreams' = <<>>
    /\ connDisc' = "no"
    /\ loopPc' = "reglock"
    /\ stale' = [held |-> stale.new, new |-> FALSE]
    /\ last' = None
    /\ UNCHANGED <<phase, attempts, conns, registry, chanVars, regLock, loopStrong,
                   snapshot, results, episodes, ep, callerVars, fails, csCalls, csOk>>

\* line 51: subscriptions.lock().await
LoopRegLock ==
    /\ loopPc = "reglock"
    /\ regLock = 0
    /\ regLock' = LoopId
    /\ loopPc' = "clone"
    /\ last' = None
    /\ UNCHANGED <<phase, attempts, connVars, registry, chanVars, wsLock, loopStrong,
                   newConn, snapshot, results, episodes, ep, callerVars, fails,
                   csCalls, csOk, stale>>

\* a snapshot whose registry guard lives on through the replay
LoopCloneKeepsLock ==
    /\ loopPc = "clone"
    /\ snapshot' = RegistryClone(registry)
    /\ results' = <<>>
    /\ regLock' = regLock
    /\ loopPc' = "replay"
    /\ last' = None
    /\ UNCHANGED <<phase, attempts, connVars, registry, chanVars, wsLock, loopStrong,
                   newConn, episodes, ep, callerVars, fails, csCalls, csOk, stale>>

\* line 51: .clone(), the guard is dropped at the end of the block
LoopClone ==
    /\ loopPc = "clone"
    /\ snapshot' = RegistryClone(registry)
    /\ results' = <<>>
    /\ regLock' = 0
    /\ loopPc' = "replay"
    /\ last' = None
    /\ UNCHANGED <<phase, attempts, connVars, registry, chanVars, wsLock, loopStrong,
                   newConn, episodes, ep, callerVars, fails, csCalls, csOk, stale>>

\* lines 52-66: the next subscribe of the replay, in the snapshot's order, and
\* its result; join_all waits for every one of them, failed or not
LoopReplay(ok) ==
    /\ loopPc = "replay"
    /\ Len(results) < Len(snapshot)
    /\ ~ok => fails < MaxFails
    /\ LET e == snapshot[Len(results) + 1]
       IN  connCalls' = Append(connCalls, [sub |-> e.sub, cb |-> e.cb,
                                           by |-> "replay", ok |-> ok])
    /\ results' = Append(results, ok)
    /\ fails' = IF ok THEN fails ELSE fails + 1
    /\ last' = None
    /\ UNCHANGED <<phase, attempts, conns, held, connStreams, connDisc, registry,
                   chanVars, wsLock, regLock, loopPc, loopStrong, newConn, snapshot,
                   episodes, ep, callerVars, csCalls, csOk, stale>>

\* a join that ends the episode whatever the replay's results
LoopJoinBreaksAlways ==
    /\ loopPc = "replay"
    /\ Len(results) = Len(snapshot)
    /\ loopPc' = "recv"
    /\ loopStrong' = FALSE
    /\ ep' = IF AllOk(results) THEN ep ELSE [ep EXCEPT !.rfail = @ + 1]
    /\ wsLock' = 0
    /\ snapshot' = <<>>
    /\ results' = <<>>
    /\ last' = None
    /\ UNCHANGED <<phase, attempts, connVars, registry, chanVars, regLock, newConn,
                   episodes, callerVars, fails, csCalls, csOk, stale>>

\* a join that, when a subscribe failed, replays again on the same connection
LoopJoinRetryInPlace ==
    /\ loopPc = "replay"
    /\ Len(results) = Len(snapshot)
    /\ IF AllOk(results)
       THEN /\ loopPc' = "recv"
            /\ loopStrong' = FALSE
            /\ wsLock' = 0
            /\ snapshot' = <<>>
            /\ ep' = ep
       ELSE /\ loopPc' = "replay"
            /\ loopStrong' = loopStrong
            /\ wsLock' = wsLock
            /\ snapshot' = snapshot
            /\ ep' = [ep EXCEPT !.rfail = @ + 1]
    /\ results' = <<>>
    /\ last' = None
    /\ UNCHANGED <<phase, attempts, connVars, registry, chanVars, regLock, newConn,
                   episodes, callerVars, fails, csCalls, csOk, stale>>

\* lines 65-72: all Ok breaks out to recv; otherwise the block ends (the guard
\* and the snapshot are dropped) and the task goes to sleep
LoopJoin ==
    /\ loopPc = "replay"
    /\ Len(results) = Len(snapshot)
    /\ IF AllOk(results)
       THEN /\ loopPc' = "recv"
            /\ loopStrong' = FALSE
            /\ ep' = ep
       ELSE /\ loopPc' = "sleep"
            /\ loopStrong' = loopStrong
            /\ ep' = [ep EXCEPT !.rfail = @ + 1]
    /\ wsLock' = 0
    /\ snapshot' = <<>>
    /\ results' = <<>>
    /\ last' = None
    /\ UNCHANGED <<phase, attempts, connVars, registry, chanVars, regLock, newConn,
                   episodes, callerVars, fails, csCalls, csOk, stale>>

\* lines 73-74: sleep(reattempt_interval), then the upgraded Arcs are dropped
LoopSleep ==
    /\ loopPc = "sleep"
    /\ ep' = [ep EXCEPT !.sleeps = @ + 1]
    /\ loopStrong' = FALSE
    /\ loopPc' = "upgrade"
    /\ last' = None
    /\ UNCHANGED <<phase, attempts, connVars, registry, chanVars, wsLock, regLock,
                   newConn, snapshot, results, episodes, callerVars, fails, csCalls, csOk, stale>>

\* -------------------------------------------------------- specification
LoopNext ==
    \/ LoopRecv
    \/ LoopUpgrade
    \/ LoopSpin
    \/ \E ok \in BOOLEAN : LoopConstruct(ok)
    \/ LoopInstall
    \/ LoopRegLock
    \/ LoopClone
    \/ \E ok \in BOOLEAN : LoopReplay(ok)
    \/ LoopJoin
    \/ LoopSleep

CallerNext(c) ==
    \/ \E s \in Subscriptions : SubscribeBegin(c, s)
    \/ SubscribeRegLock(c)
    \/ SubscribePush(c)
    \/ SubscribeWsLock(c)
    \/ \E ok \in BOOLEAN : SubscribeCall(c, ok)
    \/ CreateStreamBegin(c)
    \/ CreateStreamWsLock(c)
    \/ \E ok \in BOOLEAN : CreateStream(c, ok)
    \/ CreateStreamSpecificBegin(c)
    \/ CreateStreamSpecificWsLock(c)
    \/ \E ok \in BOOLEAN : CreateStreamSpecific(c, ok)
    \/ DisconnectBegin(c)
    \/ DisconnectWsLock(c)
    \/ Disconnect(c)

Next ==
    \/ \E ok \in BOOLEAN : Instantiate(ok)
    \/ DropFacade
    \/ \E i \in 1..Len(connCalls), m \in Messages : Deliver(i, m)
    \/ \E c \in Callers : CallerNext(c)
    \/ LoopNext

Spec == Init /\ [][Next]_vars

\* ------------------------------------------------------------- fairness
\* The runtime keeps polling the spawned task and the futures of the calls in
\* progress, so each takes the step it is at; whether a new call is made, a
\* message delivered or the facade dropped is up to the environment. tokio's
\* Mutex is fair (FIFO), so a waiter gets a lock that is freed again and again
\* (strong fairness; at every other position the step stays enabled and weak
\* fairness is the same).
CallerProgress(c) ==
    \/ SubscribeRegLock(c)
    \/ SubscribePush(c)
    \/ SubscribeWsLock(c)
    \/ \E ok \in BOOLEAN : SubscribeCall(c, ok)
    \/ CreateStreamWsLock(c)
    \/ \E ok \in BOOLEAN : CreateStream(c, ok)
    \/ CreateStreamSpecificWsLock(c)
    \/ \E ok \in BOOLEAN : CreateStreamSpecific(c, ok)
    \/ DisconnectWsLock(c)
    \/ Disconnect(c)

FairSpec ==
    /\ Spec
    /\ SF_vars(LoopNext)
    /\ \A c \in Callers : SF_vars(CallerProgress(c))

\* ---------------------------------------------------------------- claims
Proj(seq) == [i \in 1..Len(seq) |-> [sub |-> seq[i].sub, cb |-> seq[i].cb]]

IsPrefix(a, b) == Len(a) <= Len(b) /\ a = SubSeq(b, 1, Len(a))

\* every replay subscribe has completed with Ok: the episode is about to end
ReplayComplete ==
    loopPc = "replay" /\ Len(results) = Len(snapshot) /\ AllOk(results)

\* C1: when a reconnect episode completes (every replay subscribe returned Ok),
\* the subscribe calls the new connection received are the replay's alone, and
\* they are the subscribe calls made so far, in the order they were made: all
\* calls that have returned, and no call that was never made.
C1_ReplayInCallOrder ==
    (ReplayComplete /\ ~raced) =>
        /\ \A i \in 1..Len(connCalls) : connCalls[i].by = "replay"
        /\ IsPrefix(Proj(connCalls), Proj(callLog))
        /\ Len(connCalls) >= Returned(callLog)

C1_Witness ==
    /\ ReplayComplete
    /\ Len(connCalls) = 2
    /\ connCalls[1].sub # connCalls[2].sub
    /\ \A i \in 1..Len(callLog) : callLog[i].res = "ok"
    /\ Len(callLog) = 2

\* the calls the held connection has received are the replay's of this attempt:
\* the snapshot's first entries, in order, with the results the task holds
ReplayMatchesSnapshot ==
    /\ Len(connCalls) = Len(results)
    /\ Len(results) <= Len(snapshot)
    /\ \A i \in 1..Len(connCalls) :
        connCalls[i] = [sub |-> snapshot[i].sub, cb |-> snapshot[i].cb,
                        by |-> "replay", ok |-> results[i]]

ReplayFailed ==
    loopPc = "replay" /\ Len(results) = Len(snapshot) /\ ~AllOk(results)

\* C2: a failed replay restarts the whole episode. The step after a replay in
\* which a subscribe failed drops the snapshot and the results and goes to
\* sleep; the sleep leads back to the top of the loop, the top (while the
\* facade lives, so that the upgrades of line 41 succeed) to a new E::new, and
\* a replay only ever runs on a connection that has received nothing but
\* this attempt's replay calls (never on one where a replay failed before),
\* from a snapshot of the whole registry, and ends only when every entry of
\* that snapshot has been subscribed.
C2_Inv ==
    /\ loopPc = "replay" =>
        /\ ReplayMatchesSnapshot
        /\ IsPrefix(snapshot, registry)
        /\ Len(snapshot) >= Returned(callLog)
    /\ loopPc \in {"sleep", "upgrade", "construct", "wslock", "reglock", "clone"} =>
        snapshot = <<>> /\ results = <<>>

C2_Step ==
    /\ (ReplayFailed /\ loopPc' # "replay") =>
        loopPc' = "sleep" /\ snapshot' = <<>> /\ results' = <<>> /\ held' = held
    /\ (ReplayFailed /\ loopPc' = "replay") => UNCHANGED <<snapshot, results, held>>
    /\ (loopPc = "sleep" /\ loopPc' # "sleep") => loopPc' = "upgrade"
    /\ (loopPc = "upgrade" /\ loopPc' # "upgrade") => loopPc' = "construct"
    /\ (loopPc = "construct" /\ loopPc' # "construct") =>
        \/ loopPc' = "sleep" /\ conns' = conns
        \/ loopPc' = "wslock" /\ conns' = conns + 1 /\ newConn' = conns'
    /\ (loopPc = "wslock" /\ loopPc' # "wslock") =>
        loopPc' = "reglock" /\ held' = newConn /\ held' > held /\ connCalls' = <<>>
    /\ (loopPc = "clone" /\ loopPc' # "clone") =>
        loopPc' = "replay" /\ snapshot' = registry /\ results' = <<>>
    /\ (ReplayComplete /\ loopPc' # "replay") => loopPc' = "recv"

C2_FailedReplayRestartsEpisode == []C2_Inv /\ [][C2_Step]_vars

\* a full replay has succeeded on a new connection after a replay failed in
\* the same episode
C2_Witness ==
    /\ ReplayComplete
    /\ ep.rfail >= 1
    /\ Len(snapshot) = 2

\* C3: in an episode the E::new attempts are the k that failed plus the one
\* that succeeded (one more success for each replay that failed afterwards),
\* each attempt but the last is followed by exactly one sleep before the next
\* one, and no step of the task invokes a callback.
C3_Inv ==
    /\ loopPc \in {"wslock", "reglock", "clone", "replay"} =>
        /\ ep.ok = ep.rfail + 1
        /\ ep.sleeps = ep.ok + ep.fail - 1
        /\ ep.rfail = 0 => (ep.ok = 1 /\ ep.ok + ep.fail = ep.fail + 1 /\ ep.sleeps = ep.fail)
    /\ loopPc = "sleep" => (ep.ok = ep.rfail /\ ep.sleeps = ep.ok + ep.fail - 1)
    /\ loopPc \in {"upgrade", "construct"} =>
        (ep.ok = ep.rfail /\ ep.sleeps = ep.ok + ep.fail)
    /\ last # None => last.by = "conn"

C3_Step ==
    /\ loopVars' # loopVars => last' = None
    /\ attempts' # attempts =>
        /\ attempts' = attempts + 1
        /\ loopPc \in {"none", "construct"}
        /\ ep'.ok + ep'.fail = ep.ok + ep.fail + (IF loopPc = "construct" THEN 1 ELSE 0)

C3_ConstructionRetries == []C3_Inv /\ [][C3_Step]_vars

\* E::new failed MaxFails times, each followed by a sleep, and then succeeded
C3_Witness ==
    /\ loopPc = "wslock"
    /\ ep.fail = MaxFails
    /\ ep.ok = 1
    /\ ep.sleeps = MaxFails

\* C4: once every handle to the facade has been dropped, the spawned task
\* eventually exits.
C4_LoopTerminates == (phase = "dropped") ~> (loopPc = "done")

\* the step is the return of a disconnect() call
DisconnectReturns == \E c \in Callers : pc[c] = "dc_call" /\ pc'[c] = "idle"

\* the step starts an episode: the task takes a trigger from the channel
EpisodeStarts == episodes' = episodes + 1

\* C5 as claimed: once disconnect() has run on the held connection, an episode
\* starts only after a callback has seen the fatal error since that disconnect.
C5_EpisodeOnlyAfterLaterFatal == [][EpisodeStarts => connDisc # "disc"]_vars

\* C5, amended: disconnect() sends no trigger, starts no episode, leaves the
\* registry and the task where they are; an episode starts only by taking a
\* trigger out of the channel, and every trigger in it was sent by a callback
\* that saw the fatal error, before the disconnect or after it.
C5_Step ==
    /\ DisconnectReturns =>
        /\ connDisc' = "disc"
        /\ UNCHANGED <<registry, queue, sent, episodes, loopVars, held, connCalls>>
    /\ EpisodeStarts => (loopPc = "recv" /\ queue >= 1 /\ queue' = queue - 1)
    /\ episodes' # episodes => EpisodeStarts
    /\ sent' # sent =>
        (sent' = sent + 1 /\ queue' = queue + 1 /\ last' # None /\ last'.in = "fatal")

C5_DisconnectTriggersNothing ==
    [](episodes + queue = sent) /\ [][C5_Step]_vars

\* disconnect() has run on the held connection, no fatal error has been seen
\* since, no trigger is queued and the task is idle
C5_Witness ==
    /\ connDisc = "disc"
    /\ loopPc = "recv"
    /\ queue = 0
    /\ Len(registry) = 2
    /\ \A c \in Callers : pc[c] = "idle"

\* C6: a trigger is sent only by a step in which the connection delivers the
\* fatal error to a closure installed by subscribe or by the replay; a closure
\* given Ok or another error sends none, and the task starts an episode only
\* by taking a sent trigger.
C6_Inv ==
    /\ last # None =>
        /\ last.by = "conn"
        /\ last.via \in {"subscribe", "replay"}
        /\ last.send <=> (last.in = "fatal")
    /\ episodes + queue = sent

C6_Step ==
    /\ sent' # sent =>
        /\ sent' = sent + 1
        /\ last' # None
        /\ last'.in = "fatal"
    /\ queue' > queue => (queue' = queue + 1 /\ sent' = sent + 1)
    /\ (last' # None /\ last'.in # "fatal") =>
        UNCHANGED <<queue, sent, episodes, loopVars>>

C6_OnlyFatalTriggers == []C6_Inv /\ [][C6_Step]_vars

\* a closure installed by the replay was given an application error
C6_Witness ==
    /\ last # None
    /\ last.in = "apperr"
    /\ last.via = "replay"
    /\ sent = 1

\* C7: a closure, installed by subscribe or by the replay, calls the callback
\* it wraps exactly once with the message it was given, the fatal error
\* included, and nothing but a delivery of the connection invokes a closure.
C7_Inv ==
    last # None =>
        /\ last.calls = <<[cb |-> last.cb, msg |-> last.in]>>
        /\ last.by = "conn"

C7_Step ==
    last' # None =>
        /\ \E i \in 1..Len(connCalls) :
            /\ connCalls[i].ok
            /\ connCalls[i].cb = last'.cb
            /\ connCalls[i].by = last'.via
        /\ UNCHANGED <<connCalls, registry, loopVars, callerVars>>

C7_ForwardedOnceUnchanged == []C7_Inv /\ [][C7_Step]_vars

\* the fatal error was delivered to a closure the replay installed
C7_Witness ==
    /\ last # None
    /\ last.in = "fatal"
    /\ last.via = "replay"
    /\ last.calls = <<[cb |-> last.cb, msg |-> "fatal"]>>

FatalSeen == last # None /\ last.in = "fatal"

\* registration i has an active subscription on the held connection
Subscribed(i) ==
    \E j \in 1..Len(connCalls) :
        /\ connCalls[j].ok
        /\ connCalls[j].sub = registry[i].sub
        /\ connCalls[j].cb = registry[i].cb

ReplayCalls == SelectSeq(connCalls, LAMBDA r : r.by = "replay")

\* C8 as claimed: while the facade lives, a fatal error seen by a callback
\* leads to a state where the holder has a connection constructed after the
\* error on which every registration of the registry is subscribed.
C8_AllRegistryResubscribed ==
    FatalSeen ~>
        \/ phase # "alive"
        \/ ~stale.held /\ \A i \in 1..Len(registry) : Subscribed(i)

\* C8, amended: ... on which the episode's replay has subscribed, with Ok,
\* every registration the registry held when the episode cloned it, which
\* includes the registration of every subscribe call that has returned.
C8_SnapshotResubscribed ==
    FatalSeen ~>
        \/ phase # "alive"
        \/ /\ ~stale.held
           /\ loopPc = "recv"
           /\ \A j \in 1..Len(ReplayCalls) : ReplayCalls[j].ok
           /\ IsPrefix(Proj(ReplayCalls), registry)
           /\ Len(ReplayCalls) >= Returned(callLog)
           /\ \A i \in 1..Len(ReplayCalls) : Subscribed(i)

\* an episode that began with a fatal error has ended on a new connection
\* with two registrations replayed
C8_Witness ==
    /\ phase = "alive"
    /\ loopPc = "recv"
    /\ held > 1
    /\ episodes >= 1
    /\ Len(ReplayCalls) = 2
    /\ \A j \in 1..Len(ReplayCalls) : ReplayCalls[j].ok

\* C9: instantiate calls E::new once. If that fails the error is returned:
\* no facade, no task, no connection, and nothing happens afterwards. If it
\* succeeds the facade starts with the connection just built, an empty
\* registry, an empty channel and the task waiting in recv.
C9_Inv ==
    /\ phase = "failed" =>
        /\ attempts = 1
        /\ conns = 0 /\ held = 0
        /\ loopPc = "none"
        /\ registry = <<>> /\ queue = 0 /\ sent = 0 /\ episodes = 0
    /\ phase = "new" => (attempts = 0 /\ loopPc = "none")
    /\ loopPc = "none" <=> phase \in {"new", "failed"}

C9_Step ==
    /\ phase = "failed" => UNCHANGED vars
    /\ phase = "new" =>
        /\ phase' \in {"alive", "failed"}
        /\ attempts' = 1
    /\ (phase = "new" /\ phase' = "alive") =>
        /\ conns' = 1 /\ held' = 1
        /\ registry' = <<>>
        /\ queue' = 0 /\ sent' = 0
        /\ loopPc' = "recv" /\ ~loopStrong'
        /\ wsLock' = 0 /\ regLock' = 0
    /\ phase' = "failed" => phase \in {"new", "failed"}

C9_InstantiateOnce == []C9_Inv /\ [][C9_Step]_vars

\* instantiate has returned the construction error
C9_Witness == phase = "failed" /\ attempts = 1 /\ loopPc = "none"

\* the step is the return of a create_stream or create_stream_specific call
CreateStreamReturns ==
    \E c \in Callers : pc[c] \in {"cs_call", "css_call"} /\ pc'[c] = "idle"

\* C10: create_stream and create_stream_specific change neither the registry
\* nor the channel and act on the held connection alone; an episode creates
\* no stream: every stream of the held connection was created on it by a
\* facade call, a newly installed connection has none, and the replay issues
\* subscribe calls for registry entries only.
C10_Inv ==
    /\ \A i \in 1..Len(connStreams) : connStreams[i].conn = held
    /\ loopPc \in {"reglock", "clone", "replay"} => connStreams = <<>>
    /\ Len(connStreams) <= csOk
    /\ Len(registry) <= Len(callLog)
    /\ IsPrefix(Proj(ReplayCalls), registry)

C10_Step ==
    /\ CreateStreamReturns =>
        UNCHANGED <<registry, queue, sent, held, conns, connCalls, loopVars>>
    /\ connStreams' # connStreams =>
        \/ CreateStreamReturns /\ Len(connStreams') = Len(connStreams) + 1
        \/ loopPc = "wslock" /\ loopPc' = "reglock" /\ connStreams' = <<>>

C10_StreamsNotReplayed == []C10_Inv /\ [][C10_Step]_vars

\* a stream was created, then an episode replayed the registry on a new
\* connection, which has no stream
C10_Witness ==
    /\ csOk >= 1
    /\ held > 1
    /\ loopPc = "recv"
    /\ connStreams = <<>>
    /\ Len(ReplayCalls) >= 1
    /\ \A c \in Callers : pc[c] = "idle"

\* subscribe call i has made its push (line 108)
Pushed(i) ==
    \/ callLog[i].res # "pending"
    \/ \E c \in Callers : arg[c] = i /\ pc[c] \in {"sub_wslock", "sub_call"}

\* C11: the registry only grows, at its end, by one entry for each subscribe
\* call and only in that call's push; it holds one entry for each call that
\* has pushed, two calls with the same subscription included; the snapshot is
\* the whole registry, and a replay that completes has subscribed every entry
\* of the snapshot, entries with the same subscription each on their own.
C11_Inv ==
    /\ Len(registry) = Cardinality({i \in 1..Len(callLog) : Pushed(i)})
    /\ \A i \in 1..Len(callLog) :
        Pushed(i) =>
            Cardinality({k \in 1..Len(registry) :
                registry[k] = [sub |-> callLog[i].sub, cb |-> i]}) = 1
    /\ loopPc = "replay" => IsPrefix(snapshot, registry)
    /\ ReplayComplete =>
        /\ Len(connCalls) = Len(snapshot)
        /\ \A k \in 1..Len(snapshot) :
            connCalls[k] = [sub |-> snapshot[k].sub, cb |-> snapshot[k].cb,
                            by |-> "replay", ok |-> TRUE]

C11_Step ==
    /\ IsPrefix(registry, registry')
    /\ registry' # registry =>
        \E c \in Callers :
            /\ pc[c] = "sub_push" /\ pc'[c] = "sub_wslock"
            /\ registry' = Append(registry, [sub |-> callLog[arg[c]].sub,
                                             cb |-> callLog[arg[c]].cb])
    /\ (loopPc = "clone" /\ loopPc' = "replay") => snapshot' = registry

C11_RegistryAppendOnly == []C11_Inv /\ [][C11_Step]_vars

\* the second episode has replayed two registrations of the same subscription
C11_Witness ==
    /\ ReplayComplete
    /\ episodes = 2
    /\ Len(registry) = 2
    /\ registry[1].sub = registry[2].sub
    /\ Len(connCalls) = 2
    /\ connCalls[1].sub = connCalls[2].sub
    /\ connCalls[1].cb # connCalls[2].cb

\* caller c is inside the connection's method it delegates to (lines 93, 112,
\* 128, 133), the task is between the installation and the end of the replay
OnConnection(c) == pc[c] \in {"sub_call", "cs_call", "css_call", "dc_call"}

LoopOnConnection == loopPc \in {"reglock", "clone", "replay"}

\* C12: the task runs one episode at a time (a trigger is taken only in recv,
\* when no episode is running), and the held connection is used by one actor
\* at a time, the owner of the websocket lock: the task from the installation
\* to the end of the replay, or one facade call inside the connection's
\* method; the connection is replaced, subscribed on, given a stream or
\* disconnected only by that owner.
C12_Inv ==
    /\ wsLock \in 0..LoopId
    /\ \A c \in Callers : OnConnection(c) <=> wsLock = c
    /\ LoopOnConnection <=> wsLock = LoopId
    /\ Cardinality({c \in Callers : OnConnection(c)})
         + (IF LoopOnConnection THEN 1 ELSE 0) <= 1

C12_Step ==
    /\ EpisodeStarts =>
        /\ loopPc = "recv" /\ loopPc' = "upgrade"
        /\ episodes' = episodes + 1
    /\ loopPc \notin {"recv", "none"} => episodes' = episodes
    /\ held' # held => (phase = "new" \/ (wsLock = 0 /\ wsLock' = LoopId))
    /\ connCalls' # connCalls =>
        \/ wsLock = LoopId /\ loopPc = "replay"
        \/ wsLock = 0 /\ wsLock' = LoopId /\ connCalls' = <<>>
        \/ \E c \in Callers : wsLock = c /\ pc[c] = "sub_call" /\ pc'[c] = "idle"
    /\ connStreams' # connStreams =>
        \/ wsLock = 0 /\ wsLock' = LoopId /\ connStreams' = <<>>
        \/ \E c \in Callers : wsLock = c /\ pc[c] \in {"cs_call", "css_call"}
    /\ (connDisc # "disc" /\ connDisc' = "disc") =>
        \E c \in Callers : wsLock = c /\ pc[c] = "dc_call"

JustStarted == loopPc = "upgrade" /\ ep = NoEpisode

\* the task is inside an episode, past its first upgrade
MidEpisode == loopPc \in {"construct", "wslock", "reglock", "clone", "replay", "sleep"}

\* C13: every trigger sent is queued, also in the middle of an episode; the
\* queue shrinks only by the one trigger the task takes in recv, and that
\* step starts one episode; the task in recv with a trigger queued can do
\* nothing but start an episode, so episodes started + triggers queued =
\* triggers sent; and, while the facade lives, a trigger queued in the middle
\* of an episode leads to the start of a further episode.
C13_Inv ==
    /\ episodes + queue = sent
    /\ episodes <= sent
    /\ queue >= 0

C13_Step ==
    /\ sent' # sent => (sent' = sent + 1 /\ queue' = queue + 1)
    /\ queue' < queue => (EpisodeStarts /\ queue' = queue - 1)
    /\ EpisodeStarts =>
        /\ loopPc = "recv" /\ queue >= 1
        /\ queue' = queue - 1
        /\ JustStarted'
    /\ loopPc # "recv" => (queue' >= queue /\ episodes' = episodes)
    /\ (loopPc = "recv" /\ queue > 0 /\ loopVars' # loopVars) => EpisodeStarts
    /\ (loopPc = "wslock" /\ loopPc' = "reglock") => (held' = conns /\ held' > held)

C13_TriggersNotCoalesced ==
    /\ []C13_Inv
    /\ [][C13_Step]_vars
    /\ (MidEpisode /\ queue > 0) ~> (phase # "alive" \/ JustStarted)

\* a closure the replay has just installed on the new connection sends a
\* trigger while the first episode's replay is still running
C13_Witness ==
    /\ loopPc = "replay"
    /\ FatalSeen
    /\ last.via = "replay"
    /\ episodes = 1
    /\ queue = 1
    /\ sent = 2
    /\ held = 2

\* C14: the task owns the registry lock exactly while it clones the snapshot:
\* it takes it at line 51 after the installation, its next step clones the
\* registry and frees the lock, and it owns it neither in E::new, nor in the
\* replay, nor in the sleep; a subscribe call that waits to push is kept
\* waiting by the task only while the task is at the clone.
C14_Inv ==
    /\ regLock \in 0..LoopId
    /\ regLock = LoopId <=> loopPc = "clone"
    /\ loopPc \in {"recv", "upgrade", "construct", "wslock", "reglock", "replay", "sleep"}
        => regLock # LoopId
    /\ \A c \in Callers :
        (pc[c] = "sub_reglock" /\ regLock # 0 /\ loopPc # "clone") =>
            (regLock \in Callers /\ pc[regLock] = "sub_push")

C14_Step ==
    /\ (regLock # LoopId /\ regLock' = LoopId) =>
        (regLock = 0 /\ loopPc = "reglock" /\ loopPc' = "clone")
    /\ (regLock = LoopId /\ loopVars' # loopVars) =>
        (regLock' = 0 /\ loopPc' = "replay" /\ snapshot' = registry)
    /\ regLock = LoopId => registry' = registry
    /\ (regLock = LoopId /\ regLock' # LoopId) => loopPc' = "replay"

C14_RegistryLockOnlyForSnapshot == []C14_Inv /\ [][C14_Step]_vars

\* a subscribe call owns the registry lock, about to push, while the task is
\* in the middle of a replay
C14_Witness ==
    /\ loopPc = "replay"
    /\ Len(results) >= 1
    /\ \E c \in Callers : pc[c] = "sub_push" /\ regLock = c

\* C15: while the websocket Arc exists it holds one connection, one that has
\* been constructed; the held connection changes only in the step of the
\* task that installs the connection just constructed, whose id is new: a
\* failed E::new, the return of a facade call and a replay subscribe leave
\* it, and since the held id only grows a replaced connection never comes
\* back.
C15_Inv ==
    /\ ConnExists => held \in 1..conns
    /\ phase \in {"new", "failed"} => (held = 0 /\ conns = 0)
    /\ newConn # 0 => (newConn = conns /\ newConn > held /\ loopPc = "wslock")
    /\ loopPc = "wslock" => newConn # 0

C15_Step ==
    /\ held' # held =>
        \/ phase = "new" /\ phase' = "alive" /\ held' = 1
        \/ /\ loopPc = "wslock" /\ loopPc' = "reglock"
           /\ held' = newConn /\ held' = conns /\ held' > held
    /\ held' >= held
    /\ (attempts' # attempts /\ conns' = conns) => held' = held
    /\ (attempts' # attempts /\ phase # "new") => held' = held
    /\ (\E c \in Callers : OnConnection(c) /\ pc'[c] = "idle") => held' = held
    /\ (loopPc = "replay" /\ connCalls' # connCalls) => held' = held
    /\ (loopPc = "wslock" /\ loopPc' = "reglock") => held' # held

C15_HeldChangesOnlyOnInstall == []C15_Inv /\ [][C15_Step]_vars

\* an episode whose first E::new failed has installed the second connection,
\* and disconnect() has since been called on it
C15_Witness ==
    /\ loopPc = "recv"
    /\ attempts = 3
    /\ conns = 2
    /\ held = 2
    /\ connDisc = "disc"
    /\ \A c \in Callers : pc[c] = "idle"

\* the subscriptions registration i has on the held connection: the subscribe
\* calls for it that the connection answered with Ok
ActiveCount(i) ==
    Cardinality({j \in 1..Len(connCalls) :
        /\ connCalls[j].ok
        /\ connCalls[j].sub = registry[i].sub
        /\ connCalls[j].cb = registry[i].cb})

\* the task waits in recv and no subscribe call is in progress
Quiet ==
    /\ loopPc = "recv"
    /\ \A c \in Callers : pc[c] \notin {"sub_reglock", "sub_push", "sub_wslock", "sub_call"}

\* C16: when the task is idle, no subscribe call is in progress, disconnect()
\* has not been called on the held connection and the subscribe calls made
\* have returned Ok, every registration has exactly one subscription on the
\* held connection (never two: one from a replay and one from its own call).
C16_OneActiveSubscriptionEach ==
    (Quiet /\ connDisc = "no" /\ \A i \in 1..Len(callLog) : callLog[i].res = "ok") =>
        \A i \in 1..Len(registry) : ActiveCount(i) = 1

\* C17: when the task is idle and disconnect() has not been called on the
\* held connection, every subscribe call that has returned Ok has a
\* subscription on the held connection: its own, or the one a replay made
\* for its registration.
C17_NoSubscriptionLost ==
    (loopPc = "recv" /\ connDisc = "no") =>
        \A i \in 1..Len(callLog) :
            callLog[i].res = "ok" =>
                \E j \in 1..Len(connCalls) :
                    /\ connCalls[j].ok
                    /\ connCalls[j].sub = callLog[i].sub
                    /\ connCalls[j].cb = callLog[i].cb

\* a subscribe call pushed after the episode's snapshot, waited for the end
\* of the replay and subscribed on the new connection itself
C17_Witness ==
    /\ loopPc = "recv"
    /\ held = 2
    /\ connDisc = "no"
    /\ Len(callLog) = 2
    /\ \A i \in 1..Len(callLog) : callLog[i].res = "ok"
    /\ Len(connCalls) = 2
    /\ connCalls[1].by = "replay" /\ connCalls[1].cb = 1
    /\ connCalls[2].by = "subscribe" /\ connCalls[2].cb = 2

\* the actors that wait for the websocket lock, for the registry lock
WsWaiters ==
    {c \in Callers : pc[c] \in {"sub_wslock", "cs_wslock", "css_wslock", "dc_wslock"}}
        \cup (IF loopPc = "wslock" THEN {LoopId} ELSE {})

RegWaiters ==
    {c \in Callers : pc[c] = "sub_reglock"}
        \cup (IF loopPc = "reglock" THEN {LoopId} ELSE {})

\* actor a can take its next step
Ready(a) == IF a = LoopId THEN ENABLED LoopNext ELSE ENABLED CallerProgress(a)

\* C18: no actor owns the registry lock while it waits for a lock, a caller
\* never owns both locks, and the task takes the registry lock only while it
\* owns the websocket lock; so whenever an actor waits for a lock that is
\* owned, the owner can take a step, or (the task, owning the websocket lock
\* and waiting for the registry lock) waits for an owner that is no waiter
\* and can take a step.
C18_Inv ==
    /\ \A c \in Callers : ~(regLock = c /\ wsLock = c)
    /\ regLock # 0 => regLock \notin (WsWaiters \cup RegWaiters)
    /\ regLock = LoopId => wsLock = LoopId
    /\ wsLock \in Callers => wsLock \notin (WsWaiters \cup RegWaiters)
    /\ (RegWaiters # {} /\ regLock # 0) => Ready(regLock)
    /\ (WsWaiters # {} /\ wsLock # 0) =>
        \/ Ready(wsLock)
        \/ /\ wsLock = LoopId /\ LoopId \in RegWaiters
           /\ regLock \in Callers
           /\ Ready(regLock)

C18_Step ==
    /\ (regLock # LoopId /\ regLock' = LoopId) => (wsLock = LoopId /\ wsLock' = LoopId)
    /\ \A c \in Callers :
        (wsLock # c /\ wsLock' = c) => (regLock # c /\ regLock' # c)

C18_NoLockDeadlock == []C18_Inv /\ [][C18_Step]_vars

\* the task owns the websocket lock and waits for the registry lock, which a
\* subscribe call about to push owns
C18_Witness ==
    /\ loopPc = "reglock"
    /\ wsLock = LoopId
    /\ regLock \in Callers
    /\ pc[regLock] = "sub_push"

\* the registration of subscribe call i
Entry(i) == [sub |-> callLog[i].sub, cb |-> callLog[i].cb]

\* the step is the return of a subscribe call with the connection's error
SubscribeReturnsErr ==
    \E c \in Callers :
        /\ pc[c] = "sub_call" /\ pc'[c] = "idle"
        /\ callLog'[arg[c]].res = "err"

\* C19: a subscribe call has pushed its registration before it delegates; its
\* return with an error changes neither the registry nor the task; the
\* registration of a call that returned an error stays in the registry, is
\* in the snapshot of every replay that runs afterwards and is subscribed by
\* every replay that completes; when a replay in which it was refused has
\* ended, the next step of the task is the way to the sleep.
C19_Inv ==
    /\ \A c \in Callers :
        pc[c] \in {"sub_wslock", "sub_call"} =>
            \E k \in 1..Len(registry) : registry[k] = Entry(arg[c])
    /\ \A i \in 1..Len(callLog) :
        callLog[i].res = "err" =>
            /\ \E k \in 1..Len(registry) : registry[k] = Entry(i)
            /\ loopPc = "replay" => \E k \in 1..Len(snapshot) : snapshot[k] = Entry(i)
            /\ ReplayComplete =>
                \E j \in 1..Len(connCalls) :
                    connCalls[j] = [sub |-> callLog[i].sub, cb |-> callLog[i].cb,
                                    by |-> "replay", ok |-> TRUE]

C19_Step ==
    /\ SubscribeReturnsErr => UNCHANGED <<registry, queue, sent, loopVars, held>>
    /\ (ReplayFailed /\ loopVars' # loopVars) =>
        (loopPc' = "sleep" /\ registry' = registry)

C19_FailedSubscribeStaysRegistered == []C19_Inv /\ [][C19_Step]_vars

\* a replay has ended in which the registration of a subscribe call that had
\* returned an error was refused again
C19_Witness ==
    /\ ReplayFailed
    /\ \E k \in 1..Len(snapshot) :
        /\ ~results[k]
        /\ callLog[snapshot[k].cb].res = "err"

\* the held connection was installed by the running episode and a subscribe
\* of its replay failed: the task has dropped its websocket guard (line 72)
\* and sleeps or works on the next E::new
PartialHeld ==
    /\ loopPc \in {"sleep", "upgrade", "construct", "wslock"}
    /\ ep.rfail >= 1

\* C20: no facade call is ever inside the connection's method while the held
\* connection is one whose replay has failed.
C20_PartialReplayNeverObserved ==
    \A c \in Callers : OnConnection(c) => ~PartialHeld

====
